---- MODULE Spec2Model ----
(***************************************************************************)
(* Configuration synchronisation and self-update loop of the telegraf      *)
(* http output (three historical versions, "v1", "v2", "v3", all in        *)
(* src/unnamed/part_000) and of the config input                           *)
(* (src/plugins/inputs/config/config.go, "cfg").                           *)
(*                                                                         *)
(* Text model.  A file or a response body is a record                      *)
(*   [lines |-> <<l1, ..., ln>>, term |-> b]                               *)
(* standing for the bytes l1 "\n" l2 "\n" ... ln, followed by a last "\n"  *)
(* iff b.  A line is a record [k, rev, time]: k is what the code can       *)
(* observe of the line with strings.Contains and strings.TrimSpace,        *)
(*   "hdr"   "#      INPUT PLUGINS      #"     (the splicer's start line)  *)
(*   "end"   "#####...#####"                   (PluginEnd of v1, v2, v3)   *)
(*   "in"    a line containing "[[inputs."     (e.g. "[[inputs.cpu]]")     *)
(*   "incfg" "[[inputs.config]]"               (PluginEnd of cfg)          *)
(*   "txt"   any other line that is not blank                              *)
(*   "blank" an empty or whitespace-only line                              *)
(*   "rev"   the line the splicer generates; rev and time are the values   *)
(*           printed into it                                               *)
(* Carriage returns are not modelled.                                      *)
(***************************************************************************)
EXTENDS Integers, Sequences, FiniteSets, Bags, TLC

\* ------------------------------------------------------------------ bounds

\* longest managed-section body of a generated input file
MaxBody == 2
\* restarts of the agent followed by the model
MaxRestarts == 2
\* reading of the clock (time.Now) followed by the model
MaxTime == 3
\* lines written to a tailed file
MaxLines == 2
\* tailers opened by the tail input, all its instances together
MaxTailers == 2
\* calls of Start on one Tail
MaxStarts == 2
\* instances of the tail input made by NewTail
MaxInstances == 2

\* ------------------------------------------------------------------- text

NoRev == <<>>

Ln(kind) == [k |-> kind, rev |-> NoRev, time |-> 0]

Text(ls, t) == [lines |-> ls, term |-> t]

EmptyText == Text(<<>>, FALSE)

\* md5.Sum of a string, as an injective function of the string
Md5(s) == <<s.lines, s.term>>

\* strings.Contains(line, InputPluginStart) of the splicers and of cfg's fingerprint
IsInputPluginStart(l) == l.k = "hdr"

\* strings.Contains(line, "[[inputs.") of v2's fingerprint
HasInputsPrefix(l) == l.k \in {"in", "incfg"}

\* strings.Contains(line, PluginEnd)
IsPluginEnd(v, l) == IF v = "cfg" THEN l.k = "incfg" ELSE l.k = "end"

\* len(strings.TrimSpace(line)) > 0
NonBlank(l) == l.k # "blank"

\* The lines the loop "line, err := rd.ReadString('\n'); if err == io.EOF
\* { break }" processes: ReadString returns the last, unterminated piece
\* of the file together with io.EOF, and the loop leaves without using it.
ReadLines(f) ==
    IF f.term \/ f.lines = <<>> THEN f.lines
    ELSE SubSeq(f.lines, 1, Len(f.lines) - 1)

\* fmt.Fprintln(fout); fmt.Fprint(fout, inputPluginConfig); fmt.Fprintln(fout)
\* written after a terminated line
InsertedLines(r) ==
    <<Ln("blank")>> \o r.lines \o
    (IF r.term \/ r.lines = <<>> THEN <<Ln("blank")>> ELSE <<>>)

\* the generated line: "# Revision: <md5>, Time: <now> #" (v2, cfg) or
\* "# Config last updated on: <now> #" (v1, v3)
GeneratedLine(v, md5, t) ==
    [k |-> "rev", rev |-> IF v \in {"v2", "cfg"} THEN md5 ELSE NoRev, time |-> t]

\* ---------------------------------------------------------------- splicer

\* the loop body without "copyLineToOutput = false": the old section stays
SpliceLineKeepsOld(v, st, i, line, r, g) ==
    LET start == IF IsInputPluginStart(line) /\ (st.start = 0 \/ v = "cfg")
                 THEN i + 4 ELSE st.start
        ins   == i = start - 2
        out1  == IF ins THEN st.out \o <<g>> \o InsertedLines(r) ELSE st.out
    IN  [start |-> start, copy |-> TRUE, out |-> out1 \o <<line>>]

\* the loop body with the end of the section tested by "lineNumber >=
\* inputPluginLinesStart"
SpliceLineEndFromStart(v, st, i, line, r, g) ==
    LET start == IF IsInputPluginStart(line) /\ (st.start = 0 \/ v = "cfg")
                 THEN i + 4 ELSE st.start
        ins   == i = start - 2
        out1  == IF ins THEN st.out \o <<g>> \o InsertedLines(r) ELSE st.out
        copy  == IF IsPluginEnd(v, line) /\ i >= start THEN TRUE
                 ELSE IF ins THEN FALSE ELSE st.copy
    IN  [start |-> start, copy |-> copy,
         out |-> IF copy THEN out1 \o <<line>> ELSE out1]

\* one pass of the loop body of updateInputPluginConfig on line number i
SpliceLine(v, st, i, line, r, g) ==
    LET start == IF IsInputPluginStart(line) /\ (st.start = 0 \/ v = "cfg")
                 THEN i + 4 ELSE st.start
        ins   == i = start - 2
        out1  == IF ins THEN st.out \o <<g>> \o InsertedLines(r) ELSE st.out
        copy  == IF IsPluginEnd(v, line) /\ i > start THEN TRUE
                 ELSE IF ins THEN FALSE ELSE st.copy
    IN  [start |-> start, copy |-> copy,
         out |-> IF copy THEN out1 \o <<line>> ELSE out1]

\* the loop over the lines read; the state after line i is computed once
\* (nx) and handed to the pass on line i + 1
RECURSIVE SpliceLoop(_, _, _, _, _, _)
SpliceLoop(v, ls, i, st, r, g) ==
    IF i > Len(ls) THEN st
    ELSE CHOOSE res \in {SpliceLoop(v, ls, i + 1, nx, r, g) :
                            nx \in {SpliceLine(v, st, i, ls[i], r, g)}} : TRUE

\* the content of telegraf.conf.new when fout is closed
Splice(v, f, r, md5, t) ==
    LET st == SpliceLoop(v, ReadLines(f), 1,
                         [start |-> 0, copy |-> TRUE, out |-> <<>>],
                         r, GeneratedLine(v, md5, t))
    IN  Text(st.out, st.out # <<>>)

\* ------------------------------------------------------------ fingerprint

\* the loop body with writeToBuf set from the first line on
Md5LineV2FromTop(st, i, line) ==
    LET start == IF HasInputsPrefix(line) /\ st.start = 0 THEN i ELSE st.start
        brk   == IsPluginEnd("v2", line) /\ start > 0 /\ i > start
    IN  [start |-> start, write |-> TRUE, done |-> brk,
         str |-> IF ~brk /\ NonBlank(line) THEN st.str \o <<line>> ELSE st.str]

\* loop of v2's calculateMd5OfInputPluginConfig; st.done is the break
Md5LineV2(st, i, line) ==
    LET start == IF HasInputsPrefix(line) /\ st.start = 0 THEN i ELSE st.start
        write == st.write \/ i = start
        brk   == IsPluginEnd("v2", line) /\ start > 0 /\ i > start
    IN  [start |-> start, write |-> write, done |-> brk,
         str |-> IF ~brk /\ write /\ NonBlank(line) THEN st.str \o <<line>> ELSE st.str]

\* loop of cfg's calculateMd5OfInputPluginConfig
Md5LineCfg(st, i, line) ==
    LET start == IF IsInputPluginStart(line) THEN i + 4 ELSE st.start
        write == st.write \/ i = start
        brk   == IsPluginEnd("cfg", line) /\ i > start
    IN  [start |-> start, write |-> write, done |-> brk,
         str |-> IF ~brk /\ write /\ NonBlank(line) THEN st.str \o <<line>> ELSE st.str]

RECURSIVE Md5Loop(_, _, _, _)
Md5Loop(v, ls, i, st) ==
    IF i > Len(ls) \/ st.done THEN st
    ELSE Md5Loop(v, ls, i + 1,
                 IF v = "cfg" THEN Md5LineCfg(st, i, ls[i])
                 ELSE Md5LineV2(st, i, ls[i]))

\* the string the digest is taken of: v2 joins the lines and trims the last
\* "\n"; cfg feeds every line with its "\n"
Md5Input(v, f) ==
    LET st == Md5Loop(v, ReadLines(f), 1,
                      [start |-> 0, write |-> FALSE, done |-> FALSE, str |-> <<>>])
    IN  Text(st.str, v = "cfg" /\ st.str # <<>>)

calculateMd5OfInputPluginConfig(v, f) == Md5(Md5Input(v, f))

\* len(strings.TrimSpace(inputPluginConfig)) == 0
IsBlankText(r) == \A i \in 1..Len(r.lines) : ~NonBlank(r.lines[i])

\* ------------------------------------------------------------------ state

Flushes == {"f1", "f2"}

VARIABLES
    variant,    \* the version of the source that is running
    windows,    \* runtime.GOOS == "windows"
    conf,       \* telegraf.conf              [exists, text]
    cand,       \* telegraf.conf.new          [exists, text]
    revfile,    \* <config_file_path>/telegraf-revision   [exists, val]
    tmprev,     \* /tmp/telegraf-revision (v3), telegraf-revision.new (v1)
    bin,        \* the downloaded binary: "none", "partial", "full"
    revcache,   \* v1's package variable revision (0 is "")
    srv,        \* the control server: [content, rev, valid]
    pc,         \* the step each flush is at
    loc,        \* the locals of each flush, and what it has done so far:
                \*   md5, body, hdr, copyErr  locals of write and updateTelegraf
                \*   resp       the answer to the poll of the cycle
                \*   res        what the last cycle returned: "nil" or "err"
                \*   conf0, rev0  telegraf.conf and the marker when the cycle began
                \*   wrote      the cycle has created, written or removed a file
                \*   validated  the verdict on the cycle's candidate
                \*   after      the cycle began after a restart was asked for
                \*   n          1 in the first cycle of the instance, 2 later
                \*   fetch      the answer to the fetch-update request of the cycle
    gen,        \* process instances started so far
    now,        \* time.Now()
    restartInvoked, \* this process instance has asked for its restart
    fnF, fnG, fnR, fnOut, fnFp, fnStep, \* inputs and results of the function runs
    tcfg,       \* the tail input's settings: [multi, pipe, fromBeginning]
    ttext,      \* the lines the tailed files get, by what the parser sees of them
    fsize,      \* lines each tailed file holds (-1: the file is not there)
    pkgOffsets, \* tail.go's package variable offsets (-1: no entry)
    tl,         \* the Tail: [state, starts, offsets, tailers, inst]
    tlrs,       \* the tailers opened so far, each with its goroutines
    acc,        \* the metrics added to the accumulator, a bag
    accAtStop   \* acc when Stop last returned

vars == <<variant, windows, conf, cand, revfile, tmprev, bin, revcache, srv,
          pc, loc, gen, now, restartInvoked, fnF, fnG, fnR, fnOut, fnFp, fnStep,
          tcfg, ttext, fsize, pkgOffsets, tl, tlrs, acc, accAtStop>>

fnVars == <<fnF, fnG, fnR, fnOut, fnFp, fnStep>>

tailVars == <<tcfg, ttext, fsize, pkgOffsets, tl, tlrs, acc, accAtStop>>

Missing == [exists |-> FALSE, text |-> EmptyText]

File(t) == [exists |-> TRUE, text |-> t]

\* ---------------------------------------------------------- control server

\* The digest the server holds for its content: the fingerprint the agent
\* version computes of a managed section holding the content's non-blank
\* lines (v2 trims the last "\n", cfg does not).
SrvDigest(v, r) ==
    LET nb == SelectSeq(r.lines, NonBlank)
    IN  Md5(Text(nb, v = "cfg" /\ nb # <<>>))

\* The answers to a poll.  An md5 poll (v2, cfg) is answered ConfigAvailable
\* exactly when the reported digest differs from the server's; v1 and v3
\* report no digest and the server decides on its own.  NoChange is 204 or
\* 200 with an empty body; 202 is BinaryAvailable.
PollAnswers(v, md5) ==
    {"neterr", "status500", "binary"} \cup
    IF v \in {"v2", "cfg"}
    THEN (IF md5 = SrvDigest(v, srv.content)
          THEN {"nochange204", "nochange200"} ELSE {"config"})
    ELSE {"nochange204", "nochange200", "config"}

\* the test-load of a configuration: a "bad" line does not load
Loads(t) == \A i \in 1..Len(t.lines) : t.lines[i].k # "bad"

\* ------------------------------------------------------------------- steps

LocInit ==
    [md5 |-> NoRev, body |-> EmptyText, hdr |-> 0, copyErr |-> FALSE,
     resp |-> "none", res |-> "none",
     conf0 |-> Missing, rev0 |-> 0, wrote |-> FALSE, validated |-> "none",
     after |-> FALSE, n |-> 0, fetch |-> "none"]

\* return from Write (or Gather) with result r; the locals go out of scope
Return(p, l, r) ==
    /\ pc' = [pc EXCEPT ![p] = "idle"]
    /\ loc' = [loc EXCEPT ![p] = [l EXCEPT !.res = r, !.md5 = NoRev,
                                             !.body = EmptyText, !.hdr = 0]]

Goto(p, l, label) ==
    /\ pc' = [pc EXCEPT ![p] = label]
    /\ loc' = [loc EXCEPT ![p] = l]

\* the first line of the revision marker, as getRevision reads it
MarkerVal == IF revfile.exists THEN revfile.val ELSE 0

\* getRevision that reads the marker file at every call
getRevisionUncached(cache, file) ==
    IF ~file.exists THEN [rev |-> 0, cache |-> cache, err |-> TRUE]
    ELSE [rev |-> file.val, cache |-> file.val, err |-> FALSE]

\* v1's getRevision: the package variable revision (cache) when it is not
\* "", else the first line of the marker file, which is kept in revision
getRevision(cache, file) ==
    IF cache # 0 THEN [rev |-> cache, cache |-> cache, err |-> FALSE]
    ELSE IF ~file.exists THEN [rev |-> 0, cache |-> cache, err |-> TRUE]
    ELSE [rev |-> file.val, cache |-> file.val, err |-> FALSE]

\* v3's getRevision: the first line of the marker file as a number
getRevisionInt(file) ==
    [rev |-> IF file.exists THEN file.val ELSE 0,
     err |-> ~file.exists \/ file.val = 0]

\* a query parameter with value x, and the parameter that is not in the query
Param(x) == [given |-> TRUE, val |-> x]

NoParam == [given |-> FALSE, val |-> 0]

\* the "revision" or "md5" parameter in the query of the poll of flush p,
\* when the request is made: v1 adds getRevision's value, v2 and cfg the
\* md5 computed before, v3 adds isWindows and source only
addConfigParams(p) ==
    CASE variant \in {"v2", "cfg"} -> Param(loc[p].md5)
      [] variant = "v1" -> Param(getRevision(revcache, revfile).rev)
      [] OTHER -> NoParam

\* the "revision" parameter in the query of the fetch-update request
updateTelegrafParam ==
    IF variant = "v1" THEN Param(getRevision(revcache, revfile).rev)
    ELSE Param(getRevisionInt(revfile).rev)

\* Write / Gather up to the request: the fingerprint or the revision that
\* goes into the query
Begin(p) ==
    /\ pc[p] = "idle"
    /\ LET l0 == [LocInit EXCEPT !.conf0 = conf, !.rev0 = MarkerVal,
                                 !.after = restartInvoked,
                                 !.n = IF loc[p].n = 0 THEN 1 ELSE 2]
       IN CASE variant = "v2" ->
                 \* the error of calculateMd5OfInputPluginConfig is overwritten
                 /\ Goto(p, [l0 EXCEPT !.md5 =
                        IF conf.exists
                        THEN calculateMd5OfInputPluginConfig("v2", conf.text)
                        ELSE NoRev], "poll")
                 /\ UNCHANGED revcache
            [] variant = "cfg" ->
                 /\ IF conf.exists
                    THEN Goto(p, [l0 EXCEPT !.md5 =
                             calculateMd5OfInputPluginConfig("cfg", conf.text)], "poll")
                    ELSE Return(p, l0, "err")
                 /\ UNCHANGED revcache
            [] variant = "v1" ->
                 LET g == getRevision(revcache, revfile)
                 IN  IF g.err THEN Return(p, l0, "err") /\ UNCHANGED revcache
                     ELSE Goto(p, l0, "poll") /\ revcache' = g.cache
            [] OTHER -> Goto(p, l0, "poll") /\ UNCHANGED revcache
    /\ UNCHANGED <<variant, windows, conf, cand, revfile, tmprev, bin, srv, gen,
                   now, restartInvoked, fnVars, tailVars>>

\* h.client.Do(req) and the classification of the response
Poll(p) ==
    /\ pc[p] = "poll"
    /\ \E a \in PollAnswers(variant, loc[p].md5) :
         LET l == [loc[p] EXCEPT !.resp = a,
                                 !.body = IF a = "config" THEN srv.content ELSE EmptyText]
             is200 == a \in {"nochange200", "config"}
         IN  IF a = "neterr" THEN Return(p, l, "err")
             ELSE IF variant = "cfg"
             THEN (IF is200 THEN Goto(p, l, "splice") ELSE Return(p, l, "nil"))
             ELSE IF a = "status500" THEN Return(p, l, "err")
             ELSE IF is200
             THEN (IF IsBlankText(l.body) THEN Return(p, l, "nil")
                   ELSE Goto(p, l, "splice"))
             ELSE IF a = "binary" /\ variant \in {"v1", "v3"} THEN Goto(p, l, "fetch")
             ELSE Return(p, l, "nil")
    /\ UNCHANGED <<variant, windows, conf, cand, revfile, tmprev, bin, revcache,
                   srv, gen, now, restartInvoked, fnVars, tailVars>>

\* the read loop that starts over at the end of the file instead of leaving
SpliceStepStartsOver(p) ==
    /\ pc[p] = "splice"
    /\ now < MaxTime
    /\ LET l == [loc[p] EXCEPT !.wrote = TRUE]
       IN  /\ cand' = File(IF conf.exists
                           THEN Splice(variant, conf.text, l.body, l.md5, now)
                           ELSE EmptyText)
           /\ now' = now + 1
           /\ Goto(p, l, "splice")
    /\ UNCHANGED <<variant, windows, conf, revfile, tmprev, bin, revcache, srv,
                   gen, restartInvoked, fnVars, tailVars>>

\* updateInputPluginConfig from os.Create("telegraf.conf.new") to fin.Close()
SpliceStep(p) ==
    /\ pc[p] = "splice"
    /\ now < MaxTime
    /\ LET l == [loc[p] EXCEPT !.wrote = TRUE]
       IN  IF ~conf.exists
           THEN /\ cand' = File(EmptyText)
                /\ now' = now
                /\ Return(p, l, "err")
           ELSE /\ cand' = File(Splice(variant, conf.text, l.body, l.md5, now))
                /\ now' = now + 1
                /\ Goto(p, l, IF variant = "v1" THEN "validate" ELSE "remove")
    /\ UNCHANGED <<variant, windows, conf, revfile, tmprev, bin, revcache, srv,
                   gen, restartInvoked, fnVars, tailVars>>

\* A validator under which a rejected candidate takes effect all the same:
\* the contrast against which the frame of Validate is measured.
ValidateCommitsRejected(p) ==
    /\ pc[p] = "validate"
    /\ \E testErr \in BOOLEAN :
         /\ IF cand.exists /\ Loads(cand.text) THEN ~testErr
            ELSE IF windows THEN TRUE
            ELSE testErr
         /\ IF testErr
            THEN /\ conf' = cand
                 /\ cand' = Missing
                 /\ Return(p, [loc[p] EXCEPT !.validated = "rejected"], "nil")
            ELSE /\ conf' = conf
                 /\ cand' = cand
                 /\ Return(p, [loc[p] EXCEPT !.validated = "ok"], "nil")
    /\ UNCHANGED <<variant, windows, revfile, tmprev, bin, revcache, srv,
                   gen, now, restartInvoked, fnVars, tailVars>>

\* v1: the test of telegraf.conf.new ("telegraf --test", or on windows
\* LoadConfig, NewAgent and ag.Test, of which only the error of ag.Test is
\* kept); a rejected candidate is removed; the commit is commented out
Validate(p) ==
    /\ pc[p] = "validate"
    /\ \E testErr \in BOOLEAN :
         /\ IF cand.exists /\ Loads(cand.text) THEN ~testErr
            ELSE IF windows THEN TRUE
            ELSE testErr
         /\ IF testErr
            THEN IF cand.exists
                 THEN /\ cand' = Missing
                      /\ Return(p, [loc[p] EXCEPT !.validated = "rejected"], "nil")
                 ELSE /\ cand' = cand
                      /\ Return(p, [loc[p] EXCEPT !.validated = "rejected"], "err")
            ELSE /\ cand' = cand
                 /\ Return(p, [loc[p] EXCEPT !.validated = "ok"], "nil")
    /\ UNCHANGED <<variant, windows, conf, revfile, tmprev, bin, revcache, srv,
                   gen, now, restartInvoked, fnVars, tailVars>>

\* os.Remove("telegraf.conf"); cfg returns the stale nil err on failure
Remove(p) ==
    /\ pc[p] = "remove"
    /\ IF conf.exists
       THEN conf' = Missing /\ Goto(p, loc[p], "rename")
       ELSE conf' = conf /\ Return(p, loc[p], IF variant = "cfg" THEN "nil" ELSE "err")
    /\ UNCHANGED <<variant, windows, cand, revfile, tmprev, bin, revcache, srv,
                   gen, now, restartInvoked, fnVars, tailVars>>

\* os.Rename("telegraf.conf.new", "telegraf.conf")
Rename(p) ==
    /\ pc[p] = "rename"
    /\ \E ok \in BOOLEAN :
         IF ok /\ cand.exists
         THEN /\ conf' = cand
              /\ cand' = Missing
              /\ IF variant = "cfg" THEN Return(p, loc[p], "nil")
                 ELSE Goto(p, loc[p], "reload")
         ELSE /\ UNCHANGED <<conf, cand>>
              /\ Return(p, loc[p], IF variant = "cfg" THEN "nil" ELSE "err")
    /\ UNCHANGED <<variant, windows, revfile, tmprev, bin, revcache, srv, gen, now,
                   restartInvoked, fnVars, tailVars>>

\* the process image is replaced, or the service manager starts the agent anew
NewInstance ==
    /\ gen < MaxRestarts
    /\ gen' = gen + 1
    /\ pc' = [q \in Flushes |-> "idle"]
    /\ loc' = [q \in Flushes |-> LocInit]
    /\ revcache' = 0
    /\ restartInvoked' = FALSE

\* the restart was asked for and the process goes on
RestartFailed(p, r) ==
    /\ restartInvoked' = TRUE
    /\ Return(p, loc[p], r)
    /\ UNCHANGED <<gen, revcache>>

\* reloadConfig: syscall.Exec of the own executable, or on windows (v1, v3)
\* "telegraf.exe --service restart"
Reload(p) ==
    /\ pc[p] = "reload"
    /\ \/ NewInstance
       \/ RestartFailed(p, "err")
    /\ UNCHANGED <<variant, windows, conf, cand, revfile, tmprev, bin, srv, now, fnVars, tailVars>>

NoMarker == [exists |-> FALSE, val |-> 0]

Marker(n) == [exists |-> TRUE, val |-> n]

\* updateTelegraf without the test of the status: the body of every answer
\* is taken for a binary.
FetchUpdateAnyStatus(p) ==
    /\ pc[p] = "fetch"
    /\ IF variant = "v1" /\ getRevision(revcache, revfile).rev = revcache /\ revcache # 0
       THEN UNCHANGED revcache /\
            \E a \in {"neterr", "status304", "ok"} :
              LET l == [loc[p] EXCEPT !.fetch = a]
              IN  IF a \in {"ok", "status304"} THEN Goto(p, [l EXCEPT !.hdr = srv.rev], "install")
                  ELSE Return(p, l, IF a = "neterr" THEN "err" ELSE "nil")
       ELSE IF (IF variant = "v1" THEN getRevision(revcache, revfile).err
                ELSE getRevisionInt(revfile).err)
       THEN UNCHANGED revcache /\ Return(p, loc[p], "err")
       ELSE /\ revcache' = IF variant = "v1" THEN getRevision(revcache, revfile).cache
                           ELSE revcache
            /\ \E a \in {"neterr", "status304", "ok", "okNoHeader"} :
                 LET l == [loc[p] EXCEPT !.fetch = a]
                 IN  IF a \in {"ok", "status304"} THEN Goto(p, [l EXCEPT !.hdr = srv.rev], "install")
                     ELSE IF a = "okNoHeader" THEN Goto(p, [l EXCEPT !.hdr = 0], "install")
                     ELSE Return(p, l, IF a = "neterr" THEN "err" ELSE "nil")
    /\ UNCHANGED <<variant, windows, conf, cand, revfile, tmprev, bin, srv, gen,
                   now, restartInvoked, fnVars, tailVars>>

\* updateTelegraf up to the response of GET <url>Update: getRevision, the
\* request, and the return on a status other than 200.  The answer carries
\* the server's revision in its Revision header, or none that is a number (0).
FetchUpdate(p) ==
    /\ pc[p] = "fetch"
    /\ IF variant = "v1" /\ getRevision(revcache, revfile).rev = revcache /\ revcache # 0
       THEN UNCHANGED revcache /\
            \E a \in {"neterr", "status304", "ok"} :
              LET l == [loc[p] EXCEPT !.fetch = a]
              IN  IF a = "ok" THEN Goto(p, [l EXCEPT !.hdr = srv.rev], "install")
                  ELSE Return(p, l, IF a = "neterr" THEN "err" ELSE "nil")
       ELSE IF (IF variant = "v1" THEN getRevision(revcache, revfile).err
                ELSE getRevisionInt(revfile).err)
       THEN UNCHANGED revcache /\ Return(p, loc[p], "err")
       ELSE /\ revcache' = IF variant = "v1" THEN getRevision(revcache, revfile).cache
                           ELSE revcache
            /\ \E a \in {"neterr", "status304", "ok", "okNoHeader"} :
                 LET l == [loc[p] EXCEPT !.fetch = a]
                 IN  IF a = "ok" THEN Goto(p, [l EXCEPT !.hdr = srv.rev], "install")
                     ELSE IF a = "okNoHeader" THEN Goto(p, [l EXCEPT !.hdr = 0], "install")
                     ELSE Return(p, l, IF a = "neterr" THEN "err" ELSE "nil")
    /\ UNCHANGED <<variant, windows, conf, cand, revfile, tmprev, bin, srv, gen,
                   now, restartInvoked, fnVars, tailVars>>

\* What can happen between the 200 answer and the restart: "markerErr" is
\* a revision marker that was created and not written (WriteString,
\* getFileMd5 or WriteFile fails), "createErr" a binary path that cannot be
\* created, "copyErr" a body that io.Copy does not write to its end.
InstallOutcomes(v, w) ==
    IF v = "v3" THEN {"ok", "copyErr", "createErr", "markerErr"}
    ELSE IF w THEN {"ok", "copyErr", "createErr", "markerErr"}
    ELSE {"ok", "copyErr", "createErr"}

\* updateTelegraf from the 200 answer to the restart.  v3: the Revision
\* header, /tmp/telegraf-revision, then /tmp/telegraf and io.Copy.  v1: the
\* binary and io.Copy, then on windows telegraf-revision.new with the md5 of
\* what was written, off windows os.Exit(1).  The error of io.Copy is kept
\* but not looked at.
Install(p) ==
    /\ pc[p] = "install"
    /\ \E o \in InstallOutcomes(variant, windows) :
         LET l == [loc[p] EXCEPT !.wrote = TRUE, !.copyErr = (o = "copyErr")]
         IN  IF variant = "v3"
             THEN IF l.hdr = 0
                  THEN /\ Return(p, loc[p], "err")
                       /\ UNCHANGED <<tmprev, bin, gen, revcache, restartInvoked>>
                  ELSE IF o \in {"markerErr", "createErr"}
                  THEN /\ tmprev' = Marker(IF o = "markerErr" THEN 0 ELSE l.hdr)
                       /\ Return(p, l, "err")
                       /\ UNCHANGED <<bin, gen, revcache, restartInvoked>>
                  ELSE /\ tmprev' = Marker(l.hdr)
                       /\ bin' = IF o = "ok" THEN "full" ELSE "partial"
                       /\ Goto(p, l, "restart")
                       /\ UNCHANGED <<gen, revcache, restartInvoked>>
             ELSE IF o = "createErr"
             THEN /\ Return(p, loc[p], "err")
                  /\ UNCHANGED <<tmprev, bin, gen, revcache, restartInvoked>>
             ELSE /\ bin' = IF o = "copyErr" THEN "partial" ELSE "full"
                  /\ IF ~windows
                     THEN /\ tmprev' = tmprev
                          /\ NewInstance
                     ELSE IF o = "markerErr"
                     THEN /\ tmprev' = Marker(0)
                          /\ Return(p, l, "err")
                          /\ UNCHANGED <<gen, revcache, restartInvoked>>
                     ELSE /\ tmprev' = Marker(IF o = "ok" THEN l.hdr ELSE -1)
                          /\ Goto(p, l, "restart")
                          /\ UNCHANGED <<gen, revcache, restartInvoked>>
    /\ UNCHANGED <<variant, windows, conf, cand, revfile, srv, now, fnVars, tailVars>>

\* the restart after a binary update: v3 runs "service telegraf restart"
\* (and "systemctl status telegraf", "whoami"), v1 on windows update.bat;
\* a failure of the command is logged and the function returns.  What the
\* service script or update.bat does with the new marker is not the
\* agent's: it is moved to <config_file_path>/telegraf-revision or it is
\* not, whether the command then stops the running agent or fails to.
RestartService(p) ==
    /\ pc[p] = "restart"
    /\ \/ NewInstance
       \/ RestartFailed(p, IF variant = "v1" /\ loc[p].copyErr THEN "err" ELSE "nil")
    /\ \E moved \in BOOLEAN :
         /\ revfile' = IF moved /\ tmprev.exists THEN tmprev ELSE revfile
         /\ tmprev' = IF moved THEN NoMarker ELSE tmprev
    /\ UNCHANGED <<variant, windows, conf, cand, bin, srv, now, fnVars, tailVars>>

\* -------------------------------------------------------------- the system

Variants == {"v1", "v2", "v3", "cfg"}

EndLine(v) == Ln(IF v = "cfg" THEN "incfg" ELSE "end")

\* the lines from the "INPUT PLUGINS" banner to the section's first line
Banner == <<Ln("end"), Ln("hdr"), Ln("end"), Ln("txt"), Ln("blank")>>

\* telegraf.conf at the start: a file with a managed section (its last line
\* terminated or not), a file without the start line, and a file with the
\* banner and no end line below the section
InitConfs(v) ==
    { Text(Banner \o <<Ln("in"), Ln("txt"), Ln("blank"), EndLine(v), Ln("txt")>>, t) :
        t \in BOOLEAN }
    \cup { Text(<<Ln("txt"), Ln("in"), EndLine(v), Ln("txt")>>, TRUE) }
    \cup { Text(Banner \o <<Ln("in"), Ln("txt")>>, TRUE) }

\* the server's content: "[[inputs.cpu]]\n", the same after a comment line,
\* and a content that does not load
SrvContents ==
    { Text(<<Ln("in")>>, TRUE),
      Text(<<Ln("txt"), Ln("in")>>, TRUE),
      Text(<<Ln("in"), Ln("bad")>>, TRUE) }

\* the revision marker at the start: a revision; for the string-revision
\* output also a marker file that holds no line yet
InitMarkers(v) == IF v = "v1" THEN {Marker(1), Marker(0)} ELSE {Marker(1)}

FnIdle ==
    /\ fnF = EmptyText /\ fnG = EmptyText /\ fnR = EmptyText
    /\ fnOut = EmptyText /\ fnFp = <<>> /\ fnStep = "off"

\* the files the globs of the tail input match, in the order of g.Match()
TFiles == <<"a", "b">>

TFileSet == {TFiles[i] : i \in 1..Len(TFiles)}

\* make(map[string]int64) and make(map[string]*tail.Tail): no entry
NoOffsets == [f \in TFileSet |-> -1]

NoTailers == [f \in TFileSet |-> 0]

\* the Tail that NewTail returns when the package variable holds offs
NewTail(offs, n) ==
    [state |-> "new", starts |-> 0, offsets |-> offs, tailers |-> NoTailers, inst |-> n]

TailIdle ==
    /\ tcfg = [multi |-> FALSE, pipe |-> FALSE, fromBeginning |-> FALSE]
    /\ ttext = <<>>
    /\ fsize = [f \in TFileSet |-> -1]
    /\ pkgOffsets = NoOffsets
    /\ tl = NewTail(NoOffsets, 0)
    /\ tlrs = <<>>
    /\ acc = EmptyBag
    /\ accAtStop = EmptyBag

Init ==
    /\ TailIdle
    /\ variant \in Variants
    /\ windows \in (IF variant \in {"v1", "v3"} THEN BOOLEAN ELSE {FALSE})
    /\ conf \in {File(t) : t \in InitConfs(variant)}
    /\ cand = Missing
    /\ revfile \in InitMarkers(variant)
    /\ tmprev = NoMarker
    /\ bin = "none"
    /\ revcache = 0
    /\ srv \in {[content |-> c, rev |-> 2] : c \in SrvContents}
    /\ pc = [p \in Flushes |-> "idle"]
    /\ loc = [p \in Flushes |-> LocInit]
    /\ gen = 0
    /\ now = 0
    /\ restartInvoked = FALSE
    /\ FnIdle

Step(p) ==
    \/ Begin(p)
    \/ Poll(p)
    \/ SpliceStep(p)
    \/ Validate(p)
    \/ Remove(p)
    \/ Rename(p)
    \/ Reload(p)
    \/ FetchUpdate(p)
    \/ Install(p)
    \/ RestartService(p)

\* The flushes of one output follow one another: Write is called again
\* when it has returned.
Next == Step("f1")

Spec == Init /\ [][Next]_vars

\* Two flushes of the md5 version at once on the same configuration directory.
InitConc == Init /\ variant = "v2"

NextConc ==
    \E p \in Flushes :
        \/ Begin(p)
        \/ Poll(p)
        \/ SpliceStep(p)
        \/ Remove(p)
        \/ Rename(p)
        \/ Reload(p)

SpecConc == InitConc /\ [][NextConc]_vars

\* ------------------------------------------- the functions on their own

\* Input files: lines before the banner, the banner cut at any length, a
\* section body, the end line or none, a line after it or none; the last
\* line terminated or not.
SeqsUpTo(S, n) == UNION {[1..m -> S] : m \in 0..n}

PreSet == {<<>>, <<Ln("end")>>, <<Ln("in")>>, <<Ln("in"), Ln("end")>>}

BannerSet == {SubSeq(<<Ln("hdr"), Ln("end"), Ln("txt"), Ln("blank")>>, 1, n) : n \in 0..4}

BodySet == SeqsUpTo({Ln("in"), Ln("txt"), Ln("blank")}, MaxBody)

SufSet == {<<>>, <<Ln("txt")>>}

FnFiles(v) ==
    { Text(a \o b \o c \o d \o e, t) :
        a \in PreSet, b \in BannerSet, c \in BodySet,
        d \in {<<>>, <<EndLine(v)>>}, e \in SufSet, t \in BOOLEAN }
    \ {Text(<<>>, TRUE)}

\* Replacement texts: "[[inputs.cpu]]\n", the same after a comment line,
\* without the last "\n", with a blank line inside, with an end line
\* inside, and a text without any "[[inputs." line.
FnContents ==
    { Text(<<Ln("in")>>, TRUE),
      Text(<<Ln("txt"), Ln("in")>>, TRUE),
      Text(<<Ln("in")>>, FALSE),
      Text(<<Ln("in"), Ln("blank"), Ln("in")>>, TRUE),
      Text(<<Ln("in"), Ln("end")>>, TRUE),
      Text(<<Ln("txt")>>, TRUE) }

\* The managed section as the splicer finds it: the start line is the first
\* line holding the start sentinel, the end line the first line after line
\* start + 4 holding the end sentinel (0: there is none).
RECURSIVE FirstFrom(_, _, _)
FirstFrom(ls, i, kind) ==
    IF i > Len(ls) THEN 0 ELSE IF ls[i].k = kind THEN i ELSE FirstFrom(ls, i + 1, kind)

StartIdx(t) == FirstFrom(t.lines, 1, "hdr")

EndIdx(v, t) ==
    IF StartIdx(t) = 0 THEN 0 ELSE FirstFrom(t.lines, StartIdx(t) + 5, EndLine(v).k)

HasSection(v, t) == StartIdx(t) > 0 /\ EndIdx(v, t) > 0

\* the bytes before the start line and the bytes after the end line
PrefixOf(t) == SubSeq(t.lines, 1, StartIdx(t) - 1)

SuffixOf(v, t) ==
    LET ls == SubSeq(t.lines, EndIdx(v, t) + 1, Len(t.lines))
    IN  Text(ls, t.term /\ ls # <<>>)

NoEndLineIn(v, r) == \A i \in 1..Len(r.lines) : ~IsPluginEnd(v, r.lines[i])

\* t without its line i
DropLine(t, i) ==
    Text(SubSeq(t.lines, 1, i - 1) \o SubSeq(t.lines, i + 1, Len(t.lines)),
         t.term /\ Len(t.lines) > 1)

MainIdle ==
    /\ windows = FALSE
    /\ conf = Missing /\ cand = Missing
    /\ revfile = NoMarker /\ tmprev = NoMarker
    /\ bin = "none" /\ revcache = 0
    /\ srv = [content |-> EmptyText, rev |-> 0]
    /\ pc = [p \in Flushes |-> "idle"]
    /\ loc = [p \in Flushes |-> LocInit]
    /\ gen = 0 /\ now = 0 /\ restartInvoked = FALSE

mainVars == <<variant, windows, conf, cand, revfile, tmprev, bin, revcache, srv,
              pc, loc, gen, now, restartInvoked>>

InitFn ==
    /\ TailIdle
    /\ MainIdle
    /\ variant \in {"v2", "v3", "cfg"}
    /\ fnF \in FnFiles(variant)
    /\ fnR \in FnContents
    /\ fnG = EmptyText /\ fnOut = EmptyText /\ fnFp = <<>>
    /\ fnStep = "in"

\* the version whose fingerprint goes with a splicer (v1 and v3 have none
\* and are followed with v2's)
FpVariant(v) == IF v = "cfg" THEN "cfg" ELSE "v2"

\* splice(fnF, fnR)
FnSplice ==
    /\ fnStep = "in"
    /\ fnOut' = Splice(variant, fnF, fnR,
                       calculateMd5OfInputPluginConfig(FpVariant(variant), fnF), 1)
    /\ fnStep' = "spliced"
    /\ UNCHANGED <<mainVars, tailVars, fnF, fnG, fnR, fnFp>>

\* fingerprint(splice(fnF, fnR))
FnFingerprint ==
    /\ fnStep = "spliced"
    /\ fnFp' = <<calculateMd5OfInputPluginConfig(FpVariant(variant), fnOut)>>
    /\ fnStep' = "refingerprinted"
    /\ UNCHANGED <<mainVars, tailVars, fnF, fnG, fnR, fnOut>>

\* fingerprint(fnF) and fingerprint(fnG), fnG being fnF without one of the
\* blank lines of its managed section
FnDropBlank ==
    /\ fnStep = "in"
    /\ HasSection(variant, fnF)
    /\ \E i \in (StartIdx(fnF) + 1)..(EndIdx(variant, fnF) - 1) :
         /\ ~NonBlank(fnF.lines[i])
         /\ HasSection(variant, DropLine(fnF, i))
         /\ fnG' = DropLine(fnF, i)
         /\ fnFp' = <<calculateMd5OfInputPluginConfig(FpVariant(variant), fnF),
                      calculateMd5OfInputPluginConfig(FpVariant(variant), DropLine(fnF, i))>>
    /\ fnStep' = "pair"
    /\ UNCHANGED <<mainVars, tailVars, fnF, fnR, fnOut>>

\* fingerprint(fnF)
FnFingerprintFile ==
    /\ fnStep = "in"
    /\ fnFp' = <<calculateMd5OfInputPluginConfig(FpVariant(variant), fnF)>>
    /\ fnStep' = "fingerprinted"
    /\ UNCHANGED <<mainVars, tailVars, fnF, fnG, fnR, fnOut>>

\* fingerprint(fnF) and fingerprint(fnG), fnG being fnF with one more line
\* in front: a comment, or a comment that names a plugin ("# [[inputs.x]]")
FnPrepend ==
    /\ fnStep = "in"
    /\ \E l \in {Ln("txt"), Ln("in")} :
         LET g == Text(<<l>> \o fnF.lines, fnF.term)
         IN  /\ fnG' = g
             /\ fnFp' = <<calculateMd5OfInputPluginConfig(FpVariant(variant), fnF),
                          calculateMd5OfInputPluginConfig(FpVariant(variant), g)>>
    /\ fnStep' = "outside"
    /\ UNCHANGED <<mainVars, tailVars, fnF, fnR, fnOut>>

\* splice(splice(fnF, fnR), fnR): the second update finds the file the first
\* one wrote, and prints the fingerprint of that file
FnSpliceAgain ==
    /\ fnStep = "spliced"
    /\ fnG' = Splice(variant, fnOut, fnR,
                     calculateMd5OfInputPluginConfig(FpVariant(variant), fnOut), 2)
    /\ fnStep' = "respliced"
    /\ UNCHANGED <<mainVars, tailVars, fnF, fnR, fnOut, fnFp>>

NextFn ==
    \/ FnSplice
    \/ FnFingerprint
    \/ FnDropBlank
    \/ FnFingerprintFile
    \/ FnPrepend
    \/ FnSpliceAgain

SpecFn == InitFn /\ [][NextFn]_vars

\* ------------------------------------------------------------ tail input
\* src/plugins/inputs/tail/tail.go.  A line of a tailed file is known by its
\* number; ttext[n] is what the parser sees of line n:
\*   "s"  a line that begins a record (IsNewLogLine) which parses
\*   "c"  a line that continues the record
\*   "b"  a line that begins a record which does not parse
\* In line mode every line is parsed on its own and a "b" line does not parse.

TKinds == {"s", "c", "b"}

\* parser.IsNewLogLine(text)
IsNewLogLine(n) == ttext[n] \in {"s", "b"}

\* parseLine(parser, text, firstLine) returns no error
Parses(buf) == \A k \in 1..Len(buf) : ttext[buf[k]] # "b"

\* the metric AddMetric gets: its "path" tag and the lines it was parsed from
Metric(f, buf) == <<f, buf>>

\* the test of tailNewFiles that is never true
AlreadyTailingNever(map, f) == FALSE

\* _, ok := t.tailers[file]
AlreadyTailing(map, f) == map[f] # 0

\* the tail.SeekInfo of tailNewFiles as the line the tailer starts after:
\* the kept offset, else the end of the file; from the beginning when
\* Location stays nil
SeekPos(f, fromBeginning, offs) ==
    IF ~tcfg.pipe /\ ~fromBeginning
    THEN (IF offs[f] >= 0 THEN offs[f] ELSE fsize[f])
    ELSE 0

\* tail.TailFile and the goroutine started for the tailer: the receiver is
\* at "for line := range tailer.Lines"; the multiline receiver has started
\* bufferMonitor and its buffer is empty
Tailer(f, at, by) ==
    [file |-> f, inst |-> tl.inst, by |-> by, at |-> at, pos |-> at,
     stopped |-> FALSE, rpc |-> "wait", cur |-> 0, buf |-> <<>>,
     mpc |-> IF tcfg.multi THEN "tick" ELSE "none"]

\* tailNewFiles: the loop over the matched files from TFiles[i] on
RECURSIVE tailNewFiles(_, _, _, _, _)
tailNewFiles(i, fromBeginning, by, map, objs) ==
    IF i > Len(TFiles) THEN [map |-> map, objs |-> objs]
    ELSE LET f == TFiles[i]
         IN  IF fsize[f] < 0 \/ AlreadyTailing(map, f)
             THEN tailNewFiles(i + 1, fromBeginning, by, map, objs)
             ELSE tailNewFiles(i + 1, fromBeginning, by,
                               [map EXCEPT ![f] = Len(objs) + 1],
                               Append(objs, Tailer(f, SeekPos(f, fromBeginning, tl.offsets), by)))

TRunning == tl.state \in {"new", "started", "stopping", "stopped"}

\* a line is written to a file, or the file is created
TAppend(f) ==
    /\ TRunning
    /\ fsize[f] < Len(ttext)
    /\ fsize' = [fsize EXCEPT ![f] = @ + 1]
    /\ UNCHANGED <<mainVars, fnVars, tcfg, ttext, pkgOffsets, tl, tlrs, acc, accAtStop>>

\* Tail.Start: a new tailers map, tailNewFiles(t.FromBeginning), then both
\* offsets maps are cleared
TStart ==
    /\ tl.state \in {"new", "started"}
    /\ tl.starts < MaxStarts
    /\ LET res == tailNewFiles(1, tcfg.fromBeginning, "Start", NoTailers, tlrs)
       IN  /\ Len(res.objs) <= MaxTailers
           /\ tlrs' = res.objs
           /\ tl' = [tl EXCEPT !.state = "started", !.starts = @ + 1,
                               !.offsets = NoOffsets, !.tailers = res.map]
    /\ pkgOffsets' = NoOffsets
    /\ UNCHANGED <<mainVars, fnVars, tcfg, ttext, fsize, acc, accAtStop>>

\* Tail.Gather: tailNewFiles(true).  Before Start t.tailers is the nil map:
\* reading it gives no entry, and the assignment that follows the start of
\* the first new tailer panics.
TGather ==
    /\ tl.state \in {"new", "started"}
    /\ LET res == tailNewFiles(1, TRUE, "Gather", tl.tailers, tlrs)
       IN  /\ Len(res.objs) <= MaxTailers
           /\ IF tl.state = "new" /\ res.objs # tlrs
              THEN /\ tl' = [tl EXCEPT !.state = "panic"]
                   /\ tlrs' = tlrs
              ELSE /\ tl' = [tl EXCEPT !.tailers = res.map]
                   /\ tlrs' = res.objs
    /\ UNCHANGED <<mainVars, fnVars, tcfg, ttext, fsize, pkgOffsets, acc, accAtStop>>

\* Tail.Stop up to t.wg.Wait(): every tailer of the map is asked for its
\* offset (tailer.Tell, the value is logged) and stopped
TStopBegin ==
    /\ tl.state = "started"
    /\ tlrs' = [i \in 1..Len(tlrs) |->
                  IF \E f \in TFileSet : tl.tailers[f] = i
                  THEN [tlrs[i] EXCEPT !.stopped = TRUE] ELSE tlrs[i]]
    /\ tl' = [tl EXCEPT !.state = "stopping"]
    /\ UNCHANGED <<mainVars, fnVars, tcfg, ttext, fsize, pkgOffsets, acc, accAtStop>>

\* Tail.Stop from t.wg.Wait() on: every receiver started by this Tail has
\* returned; t.offsets is copied into the package variable
TStopEnd ==
    /\ tl.state = "stopping"
    /\ \A i \in 1..Len(tlrs) : tlrs[i].inst = tl.inst => tlrs[i].rpc = "done"
    /\ pkgOffsets' = [f \in TFileSet |->
                        IF tl.offsets[f] >= 0 THEN tl.offsets[f] ELSE pkgOffsets[f]]
    /\ tl' = [tl EXCEPT !.state = "stopped"]
    /\ accAtStop' = acc
    /\ UNCHANGED <<mainVars, fnVars, tcfg, ttext, fsize, tlrs, acc>>

\* inputs.Add("tail", ...): the agent makes the next Tail with NewTail
TNewTail ==
    /\ tl.state = "stopped"
    /\ tl.inst < MaxInstances
    /\ tl' = NewTail(pkgOffsets, tl.inst + 1)
    /\ UNCHANGED <<mainVars, fnVars, tcfg, ttext, fsize, pkgOffsets, tlrs, acc, accAtStop>>

\* the receiver of tailer i takes the next line from tailer.Lines.  receiver
\* parses it and adds its metric.  multilineReceiver appends a line that
\* does not begin a record to the buffer; a line that begins one goes to
\* the buffer when the buffer is empty, and is held (cur) while the buffer
\* is parsed when it is not.
TRecv(i) ==
    /\ TRunning
    /\ i \in DOMAIN tlrs
    /\ tlrs[i].rpc = "wait" /\ ~tlrs[i].stopped
    /\ tlrs[i].pos < fsize[tlrs[i].file]
    /\ LET o == tlrs[i]
           n == o.pos + 1
       IN  IF ~tcfg.multi
           THEN /\ tlrs' = [tlrs EXCEPT ![i].pos = n]
                /\ acc' = IF Parses(<<n>>)
                          THEN acc (+) SetToBag({Metric(o.file, <<n>>)}) ELSE acc
           ELSE /\ acc' = acc
                /\ tlrs' = [tlrs EXCEPT ![i] =
                     IF IsNewLogLine(n)
                     THEN (IF o.buf # <<>>
                           THEN [o EXCEPT !.pos = n, !.cur = n, !.rpc = "flush"]
                           ELSE [o EXCEPT !.pos = n, !.buf = <<n>>])
                     ELSE [o EXCEPT !.pos = n, !.buf = Append(o.buf, n)]]
    /\ UNCHANGED <<mainVars, fnVars, tcfg, ttext, fsize, pkgOffsets, tl, accAtStop>>

\* multilineReceiver, a record is complete: the buffer is parsed and its
\* metric added; on a parse error "continue" takes the next line
TRecvFlush(i) ==
    /\ TRunning
    /\ i \in DOMAIN tlrs
    /\ tlrs[i].rpc = "flush"
    /\ IF Parses(tlrs[i].buf)
       THEN /\ acc' = acc (+) SetToBag({Metric(tlrs[i].file, tlrs[i].buf)})
            /\ tlrs' = [tlrs EXCEPT ![i].rpc = "reset"]
       ELSE /\ acc' = acc
            /\ tlrs' = [tlrs EXCEPT ![i].rpc = "wait", ![i].cur = 0]
    /\ UNCHANGED <<mainVars, fnVars, tcfg, ttext, fsize, pkgOffsets, tl, accAtStop>>

\* multilineReceiver: buffer.Reset(); buffer.WriteString(text)
TRecvReset(i) ==
    /\ TRunning
    /\ i \in DOMAIN tlrs
    /\ tlrs[i].rpc = "reset"
    /\ tlrs' = [tlrs EXCEPT ![i].buf = <<tlrs[i].cur>>, ![i].cur = 0, ![i].rpc = "wait"]
    /\ UNCHANGED <<mainVars, fnVars, tcfg, ttext, fsize, pkgOffsets, tl, acc, accAtStop>>

\* tailer.Lines is closed after tailer.Stop: the range loop ends and the
\* receiver returns (wg.Done)
TRecvExit(i) ==
    /\ TRunning
    /\ i \in DOMAIN tlrs
    /\ tlrs[i].rpc = "wait" /\ tlrs[i].stopped
    /\ tlrs' = [tlrs EXCEPT ![i].rpc = "done"]
    /\ UNCHANGED <<mainVars, fnVars, tcfg, ttext, fsize, pkgOffsets, tl, acc, accAtStop>>

\* bufferMonitor at a tick, more than a second after the last line that
\* continued a record: a buffer that is not empty and parses is added; on a
\* parse error "continue" waits for the next tick.  The goroutine takes no
\* lock and has no way out of its loop.
TMonFlush(i) ==
    /\ TRunning
    /\ i \in DOMAIN tlrs
    /\ tlrs[i].mpc = "tick"
    /\ tlrs[i].buf # <<>> /\ Parses(tlrs[i].buf)
    /\ acc' = acc (+) SetToBag({Metric(tlrs[i].file, tlrs[i].buf)})
    /\ tlrs' = [tlrs EXCEPT ![i].mpc = "reset"]
    /\ UNCHANGED <<mainVars, fnVars, tcfg, ttext, fsize, pkgOffsets, tl, accAtStop>>

\* bufferMonitor: (*buf).Reset()
TMonReset(i) ==
    /\ TRunning
    /\ i \in DOMAIN tlrs
    /\ tlrs[i].mpc = "reset"
    /\ tlrs' = [tlrs EXCEPT ![i].buf = <<>>, ![i].mpc = "tick"]
    /\ UNCHANGED <<mainVars, fnVars, tcfg, ttext, fsize, pkgOffsets, tl, acc, accAtStop>>

\* the lines the files get: every text of MaxLines lines that begins a
\* record.  At the start the first file is there and empty, the others are
\* created later.
TTexts == {t \in [1..MaxLines -> TKinds] : t[1] # "c"}

InitTail ==
    /\ MainIdle /\ FnIdle
    /\ variant = "v2"
    /\ tcfg \in [multi : BOOLEAN, pipe : BOOLEAN, fromBeginning : BOOLEAN]
    /\ ttext \in TTexts
    /\ fsize = [f \in TFileSet |-> IF f = TFiles[1] THEN 0 ELSE -1]
    /\ pkgOffsets = NoOffsets
    /\ tl = NewTail(NoOffsets, 1)
    /\ tlrs = <<>>
    /\ acc = EmptyBag
    /\ accAtStop = EmptyBag

NextTail ==
    \/ \E f \in TFileSet : TAppend(f)
    \/ TStart
    \/ TGather
    \/ TStopBegin
    \/ TStopEnd
    \/ TNewTail
    \/ \E i \in 1..MaxTailers :
         \/ TRecv(i)
         \/ TRecvFlush(i)
         \/ TRecvReset(i)
         \/ TRecvExit(i)
         \/ TMonFlush(i)
         \/ TMonReset(i)

SpecTail == InitTail /\ [][NextTail]_vars

\* ------------------------------------------------- cycles that end

\* The steps of a cycle after its beginning: each is a call that returns.
CycleStep(p) ==
    \/ Poll(p)
    \/ SpliceStep(p)
    \/ Validate(p)
    \/ Remove(p)
    \/ Rename(p)
    \/ Reload(p)
    \/ FetchUpdate(p)
    \/ Install(p)
    \/ RestartService(p)

\* a cycle that begins while the clock and the restarts followed by the
\* model leave room for its steps
BeginInBounds(p) ==
    /\ now < MaxTime
    /\ gen < MaxRestarts
    /\ Begin(p)

NextLive == BeginInBounds("f1") \/ CycleStep("f1")

\* Every HTTP exchange, file operation and subprocess returns: a step of a
\* cycle that can be taken is taken.
SpecLive == Init /\ [][NextLive]_vars /\ WF_vars(CycleStep("f1"))

\* ------------------------------------------------------------------ claims

InCycle(p) == pc[p] # "idle"

Ended(p) == pc[p] = "idle" /\ loc[p].res # "none"

\* C1: in a cycle that received ConfigAvailable, telegraf.conf is not
\* removed or renamed over before the Validator has accepted the cycle's
\* candidate.  (Stated for every flush that has passed os.Remove.)
C1_NoCommitBeforeValidation ==
    \A p \in Flushes :
        variant \in {"v2", "v3"} /\ pc[p] \in {"rename", "reload"}
            => loc[p].validated = "ok"

\* C2: in no reachable state is the active configuration file missing.
C2_ActiveFileNeverMissing == conf.exists

\* C3: for every file F with the start and the end sentinel and every
\* replacement R, splice(F, R) has the prefix and the suffix of F, byte for
\* byte, also when the last line of F has no newline.  (R is taken without
\* an end sentinel of its own, which would move the end of the section.)
C3_SplicePreservesOutside ==
    (fnStep = "spliced" /\ HasSection(variant, fnF) /\ NoEndLineIn(variant, fnR))
        => /\ HasSection(variant, fnOut)
           /\ PrefixOf(fnOut) = PrefixOf(fnF)
           /\ SuffixOf(variant, fnOut) = SuffixOf(variant, fnF)

\* C4: when the Validator rejects the candidate, telegraf.conf holds after
\* the cycle what it held before it, the revision marker is untouched, no
\* restart was asked for, and the cycle has returned to the agent.
C4_RejectionLeavesActiveFile ==
    \A p \in Flushes :
        loc[p].validated = "rejected"
            => /\ Ended(p)
               /\ conf = loc[p].conf0
               /\ MarkerVal = loc[p].rev0
               /\ restartInvoked = loc[p].after

C4_Witness ==
    \E p \in Flushes :
        /\ Ended(p)
        /\ loc[p].validated = "rejected"
        /\ loc[p].resp = "config"
        /\ ~cand.exists

\* C5: after a cycle that committed the server's content and restarted the
\* agent, the first cycle of the new instance is answered NoChange and
\* commits nothing, the server's content being the same.
C5_NoRestartLoop ==
    \A p \in Flushes :
        (variant = "v2" /\ gen >= 1 /\ loc[p].n = 1)
            => /\ loc[p].resp # "config"
               /\ pc[p] \notin {"splice", "remove", "rename", "reload"}

\* C6: a poll that the server answers NoChange writes no file, leaves the
\* revision alone and asks for no restart, so that the next poll finds the
\* same state and is answered NoChange again.
C6_NoChangePollIsNoOp ==
    \A p \in Flushes :
        loc[p].resp \in {"nochange204", "nochange200"}
            => /\ Ended(p)
               /\ ~loc[p].wrote
               /\ conf = loc[p].conf0
               /\ MarkerVal = loc[p].rev0
               /\ restartInvoked = loc[p].after

\* C7: two files that differ only by a blank line inside the managed
\* section have the same fingerprint.
C7_BlankLinesIgnored ==
    fnStep = "pair" => fnFp[1] = fnFp[2]

\* the digest of a content's non-blank lines, without the last line terminator
DigestOfNonBlank(r) == Md5(Text(SelectSeq(r.lines, NonBlank), FALSE))

\* C8: the fingerprint of splice(F, R) is the digest of the non-blank lines
\* of R without the last line terminator, for every F with a managed
\* section and every R (also an R that begins with a comment line or holds
\* no "[[inputs." line).
C8_SpliceThenFingerprint ==
    (fnStep = "refingerprinted" /\ HasSection(variant, fnF))
        => fnFp[1] = DigestOfNonBlank(fnR)

\* C9: the file steps of two flushes never interleave: at most one flush is
\* between the creation of telegraf.conf.new and its commit.
C9_SingleFlight ==
    Cardinality({p \in Flushes : pc[p] \in {"splice", "remove", "rename", "reload"}}) <= 1

\* C10: once a restart has been asked for (reloadConfig after a commit, the
\* service restart after a binary install), the process begins no further
\* sync cycle.
C10_RestartIsTerminal ==
    \A p \in Flushes : variant = "v3" => ~loc[p].after

\* C11: the process ends (and a new instance starts) only in the restart
\* after a commit, or after a binary that was downloaded to its end; a
\* failed download does not end it.
C11_EndedOnlyAfterSuccess ==
    [][gen' # gen => (pc["f1"] = "reload" \/ bin' = "full")]_vars

\* C12: a cycle whose candidate the Validator has accepted ends with the
\* candidate promoted to telegraf.conf: telegraf.conf.new is gone, the
\* active file is the candidate and the restart has been asked for.
C12_AcceptedCandidateIsCommitted ==
    \A p \in Flushes :
        (Ended(p) /\ loc[p].validated = "ok")
            => /\ ~cand.exists
               /\ conf # loc[p].conf0
               /\ restartInvoked

\* C13: a new revision marker is there only with a binary that was
\* downloaded to its end: a cycle that fails before that leaves none.
C13_MarkerOnlyAfterApply ==
    tmprev.exists => bin = "full"

\* C14: when the restart of a binary update starts the new instance, the
\* download being complete and the fetch-update answer carrying revision v,
\* <config_file_path>/telegraf-revision holds v for the new instance.
C14_StoreHoldsHeaderAfterRestart ==
    [][(/\ pc["f1"] \in {"install", "restart"}
        /\ gen' # gen
        /\ bin' = "full"
        /\ loc["f1"].hdr # 0)
           => (revfile'.exists /\ revfile'.val = loc["f1"].hdr)]_vars

\* C15: the restart step of a binary update is reached only when io.Copy
\* has written the whole body; a failed copy ends the cycle with an error
\* and without a restart.
C15_RestartOnlyAfterFullDownload ==
    \A p \in Flushes :
        /\ pc[p] = "restart" => ~loc[p].copyErr
        /\ (Ended(p) /\ loc[p].copyErr) => (loc[p].res = "err" /\ ~restartInvoked)

\* C16: the marker the integer-revision output writes is never left empty:
\* it holds a whole revision whenever it exists.
C16_MarkerNeverEmpty ==
    (variant = "v3" /\ tmprev.exists) => tmprev.val # 0

\* C17: a poll answered with a status outside 200..299 ends the cycle with
\* an error, and with every file, the marker and the restart state as they
\* were when the cycle began.
C17_Non2xxIsFailureWithoutChange ==
    \A p \in Flushes :
        loc[p].resp = "status500"
            => /\ Ended(p)
               /\ loc[p].res = "err"
               /\ ~loc[p].wrote
               /\ conf = loc[p].conf0
               /\ MarkerVal = loc[p].rev0
               /\ restartInvoked = loc[p].after

\* C18: the step after the poll is the one the status table names: 202
\* goes to the fetch-update request, 200 with a non-blank body to the
\* splice, every other 2xx answer ends the cycle without error.
C18_ClassifiedByStatus ==
    [][(variant \in {"v1", "v2"} /\ pc["f1"] = "poll" /\ pc'["f1"] # "poll")
          => LET a == loc'["f1"].resp
             IN  /\ a = "binary" => pc'["f1"] = "fetch"
                 /\ a = "config" => pc'["f1"] = "splice"
                 /\ a \in {"nochange204", "nochange200"}
                      => (pc'["f1"] = "idle" /\ loc'["f1"].res = "nil")]_vars

\* C19: in a cycle the server answered NoChange, no step that creates,
\* writes or removes a file is taken.
C19_NoChangeWritesNoFile ==
    \A p \in Flushes :
        loc[p].resp \in {"nochange204", "nochange200"}
            => /\ pc[p] \notin {"splice", "validate", "remove", "rename", "reload"}
               /\ ~loc[p].wrote

\* C20: no candidate that fails the test-load is left behind by a cycle of
\* the validating output, on windows or off it.
C20_RejectedCandidateIsDeleted ==
    \A p \in Flushes :
        (variant = "v1" /\ Ended(p) /\ loc[p].resp = "config" /\ cand.exists)
            => Loads(cand.text)

\* C21: a cycle that received ConfigAvailable and ended with an error before
\* anything was committed leaves no telegraf.conf.new behind, and
\* telegraf.conf and the revision marker as they were.
C21_AbortLeavesNoCandidate ==
    \A p \in Flushes :
        (Ended(p) /\ loc[p].resp = "config" /\ loc[p].res = "err"
           /\ conf = loc[p].conf0)
            => (~cand.exists /\ MarkerVal = loc[p].rev0)

\* C22: a fetch-update request answered with a status other than 200 ends
\* the cycle without error and without a step on any file: no binary, no
\* marker, no restart.
C22_FetchNon200IsNoChange ==
    [][(pc["f1"] = "fetch" /\ loc'["f1"].fetch = "status304")
          => /\ pc'["f1"] = "idle"
             /\ loc'["f1"].res = "nil"
             /\ UNCHANGED <<conf, cand, revfile, tmprev, bin, gen, restartInvoked>>]_vars

C22_Witness ==
    \E p \in Flushes :
        /\ Ended(p)
        /\ loc[p].resp = "binary"
        /\ loc[p].fetch = "status304"
        /\ loc[p].res = "nil"
        /\ ~loc[p].wrote

\* C24: a cycle of a fingerprinting version that finds no readable
\* telegraf.conf goes no further than the fingerprint: it sends no poll and
\* runs no splice or commit.
C24_UnreadableFileAbortsCycle ==
    \A p \in Flushes :
        (variant \in {"v2", "cfg"} /\ InCycle(p)) => loc[p].conf0.exists

\* C25: a flush whose batch the server accepted with a 2xx status is
\* reported by Write as delivered, whatever became of the sync steps after it.
C25_AcceptedBatchIsDelivered ==
    \A p \in Flushes :
        (variant = "v1" /\ Ended(p)
           /\ loc[p].resp \in {"nochange204", "nochange200", "config", "binary"})
            => loc[p].res = "nil"

\* the line at which a version's fingerprint begins to look for the section
FpStart(v, l) == IF v = "cfg" THEN IsInputPluginStart(l) ELSE HasInputsPrefix(l)

NoFpStartIn(v, t) == \A i \in 1..Len(t.lines) : ~FpStart(v, t.lines[i])

From(ls, i) == SubSeq(ls, i, Len(ls))

\* the layout of the candidate: the file through the line after the start
\* line, the generated line, an empty line, the content, an empty line, the
\* file from the end line on
Layout(v, f, r, out) ==
    /\ Len(out.lines) >= StartIdx(f) + 2
    /\ out.lines[StartIdx(f) + 2].k = "rev"
    /\ out.lines = SubSeq(f.lines, 1, StartIdx(f) + 1)
                     \o <<out.lines[StartIdx(f) + 2]>>
                     \o <<Ln("blank")>> \o r.lines \o <<Ln("blank")>>
                     \o From(f.lines, EndIdx(v, f))

C30_LineNumbers ==
    (fnStep = "spliced" /\ variant \in {"v2", "v3"}
       /\ StartIdx(Text(ReadLines(fnF), TRUE)) > 0)
        => LET ls == ReadLines(fnF)
               L  == FirstFrom(ls, 1, "hdr")
               E  == FirstFrom(ls, L + 5, "end")
           IN  IF Len(ls) < L + 2 THEN fnOut.lines = ls
               ELSE /\ Len(fnOut.lines) >= L + 2
                    /\ fnOut.lines[L + 2].k = "rev"
                    /\ fnOut.lines = SubSeq(ls, 1, L + 1)
                                       \o <<fnOut.lines[L + 2]>>
                                       \o InsertedLines(fnR)
                                       \o (IF E = 0 THEN <<>> ELSE From(ls, E))

C30_Witness ==
    /\ fnStep = "spliced" /\ variant \in {"v2", "v3"}
    /\ LET ls == ReadLines(fnF)
           L  == FirstFrom(ls, 1, "hdr")
       IN  /\ L > 0
           /\ Len(ls) >= L + 5
           /\ \E i \in (L + 1)..(L + 4) : ls[i].k = "end"
           /\ FirstFrom(ls, L + 5, "end") > L + 5
           /\ Len(fnOut.lines) = L + 1 + 1 + Len(InsertedLines(fnR))
                                   + Len(ls) - FirstFrom(ls, L + 5, "end") + 1

\* C27: the revision printed into the generated line of the candidate is
\* the fingerprint of the candidate, and the line after the generated line
\* is the first line of the content.
C27_GeneratedLineNamesNewRevision ==
    (fnStep = "refingerprinted" /\ variant \in {"v2", "cfg"}
       /\ HasSection(variant, fnF) /\ fnF.term)
        => /\ fnOut.lines[StartIdx(fnOut) + 2].rev = fnFp[1]
           /\ fnOut.lines[StartIdx(fnOut) + 3] = fnR.lines[1]

\* the non-blank lines of f that the splicer drops, the line at the place
\* of the generated line apart
RemovedLines(v, f) ==
    SelectSeq(SubSeq(f.lines, StartIdx(f) + 3, EndIdx(v, f) - 1), NonBlank)

\* C28: the fingerprint of a file is the digest of the non-blank lines that
\* the splicer replaces in it.
C28_SameSection ==
    (fnStep = "fingerprinted" /\ variant \in {"v2", "cfg"}
       /\ HasSection(variant, fnF) /\ fnF.term)
        => fnFp[1] = Md5(Text(RemovedLines(variant, fnF),
                              variant = "cfg" /\ RemovedLines(variant, fnF) # <<>>))

\* C29: a line added in front of a file, outside its managed section,
\* leaves the fingerprint as it is, also when the line holds "[[inputs.".
C29_OutsideLinesDoNotCount ==
    (fnStep = "outside" /\ variant \in {"v2", "cfg"} /\ HasSection(variant, fnF))
        => fnFp[1] = fnFp[2]

\* what the local file holds: the fingerprint of telegraf.conf (v2, cfg), the
\* first line of the revision marker (v1, v3); nothing when there is no file
LocalRevision ==
    IF variant \in {"v2", "cfg"}
    THEN (IF conf.exists
          THEN Param(calculateMd5OfInputPluginConfig(variant, conf.text))
          ELSE [given |-> FALSE, val |-> NoRev])
    ELSE (IF revfile.exists THEN Param(revfile.val) ELSE NoParam)

\* C32: the poll request and the fetch-update request carry, as a query
\* parameter, the fingerprint or the revision the local file holds when
\* the request is made.
C32_RequestsCarryLocalRevision ==
    [][/\ (pc["f1"] = "poll" /\ pc'["f1"] # "poll")
            => addConfigParams("f1") = LocalRevision
       /\ (pc["f1"] = "fetch" /\ loc'["f1"].fetch # "none")
            => updateTelegrafParam = LocalRevision]_vars

\* C35: in the string-revision output a revision that was read from the
\* marker file stays the value of getRevision for the rest of the process,
\* whatever the marker file holds later; while no revision is kept, a call
\* reads the file and returns its first line.
C35_RevisionCachedOnceRead ==
    [][(variant = "v1" /\ gen' = gen)
          => /\ revcache # 0
                  => /\ revcache' = revcache
                     /\ getRevision(revcache, revfile).rev = revcache
             /\ (revcache = 0 /\ revfile.exists)
                  => getRevision(revcache, revfile).rev = revfile.val
             /\ (revcache = 0 /\ pc["f1"] = "idle" /\ pc'["f1"] = "poll")
                  => revcache' = revfile.val]_vars

C35_Witness ==
    /\ variant = "v1"
    /\ revcache # 0
    /\ revfile.exists /\ revfile.val # revcache
    /\ pc["f1"] = "poll"
    /\ loc["f1"].n = 2

\* C31: every sync cycle ends: a flush that has begun a cycle comes back to
\* idle (Write has returned, or the process was replaced by a new instance).
C31_CycleTerminates == (pc["f1"] # "idle") ~> (pc["f1"] = "idle")

C31_Witness ==
    /\ Ended("f1")
    /\ loc["f1"].n = 2
    /\ loc["f1"].resp = "config"
    /\ loc["f1"].wrote

\* C34: a telegraf.conf with the start line on line L, at least two lines
\* below it and no end line below line L+4 is replaced by lines 1..L+1, the
\* generated line, a newline, the content and a newline: the lines from L+2
\* on are gone from the committed file.
C34_NoEndLineTruncates ==
    \A p \in Flushes :
        LET ls == ReadLines(loc[p].conf0.text)
            L  == FirstFrom(ls, 1, "hdr")
        IN  (/\ variant \in {"v2", "v3"}
             /\ pc[p] = "reload"
             /\ L > 0 /\ Len(ls) >= L + 2
             /\ FirstFrom(ls, L + 5, "end") = 0)
              => /\ conf.exists /\ ~cand.exists
                 /\ Len(conf.text.lines) >= L + 2
                 /\ conf.text.lines =
                      SubSeq(ls, 1, L + 1)
                        \o <<GeneratedLine(variant, loc[p].md5,
                                           conf.text.lines[L + 2].time)>>
                        \o InsertedLines(loc[p].body)

C34_Witness ==
    \E p \in Flushes :
        LET ls == ReadLines(loc[p].conf0.text)
            L  == FirstFrom(ls, 1, "hdr")
        IN  /\ variant \in {"v2", "v3"}
            /\ pc[p] = "reload"
            /\ L > 0 /\ Len(ls) > L + 2
            /\ FirstFrom(ls, L + 1, "end") > 0
            /\ FirstFrom(ls, L + 5, "end") = 0
            /\ conf.exists
            /\ Len(conf.text.lines) = L + 2 + Len(InsertedLines(loc[p].body))

\* line l without the time of a generated line; without its revision too
NoTime(l) == [l EXCEPT !.time = 0]

NoTimeNoRev(l) == [l EXCEPT !.time = 0, !.rev = NoRev]

C36_OffsetsRecordedAtStop ==
    (tl.state = "stopped" /\ ~tcfg.pipe /\ ~tcfg.fromBeginning)
        => \A f \in TFileSet :
             tl.tailers[f] # 0 => pkgOffsets[f] = tlrs[tl.tailers[f]].pos

\* the tailers of file f whose receiver runs, started by the Tail in use
LiveTailers(f) ==
    {i \in 1..Len(tlrs) :
        tlrs[i].file = f /\ tlrs[i].inst = tl.inst /\ tlrs[i].rpc # "done"}

\* C37 as stated: after any sequence of Start and Gather calls a file has
\* at most one tailer with its receiver.
C37_OneTailerPerFile ==
    \A f \in TFileSet : Cardinality(LiveTailers(f)) <= 1

\* C37, for a Tail on which Start was called once: after Start and the
\* Gather calls that follow it a file has at most one tailer with its
\* receiver.
C37_OneTailerPerFileOneStart ==
    tl.starts <= 1 => \A f \in TFileSet : Cardinality(LiveTailers(f)) <= 1

C37_Witness ==
    /\ tl.state = "started" /\ tl.starts = 1
    /\ \A f \in TFileSet : Cardinality(LiveTailers(f)) = 1
    /\ \E i \in 1..Len(tlrs) : tlrs[i].by = "Start"
    /\ \E i \in 1..Len(tlrs) : tlrs[i].by = "Gather" /\ tlrs[i].pos > 0

\* the lines tailer i has taken that are in no metric, not in its buffer
\* and not the line it holds
LostLines(i) ==
    {n \in (tlrs[i].at + 1)..tlrs[i].pos :
        /\ n # tlrs[i].cur
        /\ \A k \in 1..Len(tlrs[i].buf) : tlrs[i].buf[k] # n
        /\ \A m \in BagToSet(acc) :
             m[1] = tlrs[i].file => \A k \in 1..Len(m[2]) : m[2][k] # n}

\* C38: in multiline mode, with lines that all parse, no record is added to
\* the accumulator twice and no line that was read is lost, whatever the
\* order of the steps of multilineReceiver and bufferMonitor.
C38_EachRecordOnce ==
    (tcfg.multi /\ tl.inst = 1 /\ tl.starts <= 1 /\ tl.state \in {"new", "started"}
       /\ \A n \in 1..Len(ttext) : ttext[n] # "b")
        => /\ \A m \in BagToSet(acc) : CopiesIn(m, acc) = 1
           /\ \A i \in 1..Len(tlrs) : LostLines(i) = {}

\* C39: when the buffered record does not parse, multilineReceiver drops it
\* and goes on with the line that begins the next record in the buffer.
C39_MalformedRecordDropped ==
    [][\A i \in 1..Len(tlrs) :
         (tlrs[i].rpc = "flush" /\ ~Parses(tlrs[i].buf) /\ tlrs'[i].rpc # "flush")
            => tlrs'[i].buf = <<tlrs[i].cur>>]_vars

\* C40: when Stop has returned, every goroutine started for a tailer of the
\* Tail has ended and the accumulator gets no further metric.
C40_NothingRunsAfterStop ==
    tl.state = "stopped"
        => /\ \A i \in 1..Len(tlrs) :
                tlrs[i].inst = tl.inst
                    => (tlrs[i].rpc = "done" /\ tlrs[i].mpc = "none")
           /\ acc = accAtStop

====
